---- MODULE Spec2Model ----
(***************************************************************************)
(* Model of the mortgage calculation of streamlit_app.py: one run of the   *)
(* script from the values returned by the input widgets to the elements    *)
(* it displays.                                                            *)
(*                                                                         *)
(* Python floats are modelled as binary floating-point numbers with a      *)
(* Prec-bit significand, round-to-nearest-even, gradual underflow at the   *)
(* exponent -MinExp and no overflow (the inputs stay far below it).  An    *)
(* IEEE double is the instance Prec = 53, MinExp = 1074.  A number is the  *)
(* record [m, e] with value m * 2^e, kept canonical, so that equality of   *)
(* records is equality of values.                                          *)
(***************************************************************************)
EXTENDS Integers, Sequences, FiniteSets, TLC

\* ------------------------------------------------------------------ bounds
Prec == 16
MinExp == 40
MaxYears == 2
MaxGrace == 2
MaxDeferral == 2

\* ------------------------------------------------- floating-point numbers
EMin == 0 - MinExp
ExtPrec == Prec + 8
NoEMin == 0 - 1000

Abs(x) == IF x < 0 THEN 0 - x ELSE x
Sgn(x) == IF x < 0 THEN 0 - 1 ELSE 1
Min(a, b) == IF a < b THEN a ELSE b
Max(a, b) == IF a > b THEN a ELSE b

RECURSIVE BitLen(_)
BitLen(n) == IF n = 0 THEN 0 ELSE 1 + BitLen(n \div 2)

\* n shifted right by s bits, rounded to nearest, ties to even.
ShiftRightRNE(n, s) ==
    IF s = 0 THEN n
    ELSE IF s > BitLen(n) + 1 THEN 0
    ELSE LET q == n \div (2 ^ s)
             rem == n % (2 ^ s)
             half == 2 ^ (s - 1)
         IN  IF rem > half \/ (rem = half /\ q % 2 = 1) THEN q + 1 ELSE q

\* The number of precision p and least exponent emin nearest to
\* sgn * n * 2^ex (n >= 0).  When the lowest bit of n is a sticky bit
\* (set because bits below it were dropped), n has at least p + 2 bits, so
\* the rounding is that of the exact value.
RoundTo(p, emin, sgn, n, ex) ==
    IF n = 0 THEN [m |-> 0, e |-> emin]
    ELSE LET len == BitLen(n)
             s == Max(len - p, emin - ex)
         IN  IF s <= 0
             THEN LET t == Min(p - len, ex - emin)
                  IN  [m |-> sgn * n * (2 ^ t), e |-> ex - t]
             ELSE LET q == ShiftRightRNE(n, s)
                  IN  IF q = 0 THEN [m |-> 0, e |-> emin]
                      ELSE IF q = 2 ^ p
                      THEN [m |-> sgn * (2 ^ (p - 1)), e |-> ex + s + 1]
                      ELSE [m |-> sgn * q, e |-> ex + s]

Round(sgn, n, ex) == RoundTo(Prec, EMin, sgn, n, ex)

\* The float written n * 2^ex, and the float of a Python int.
Fl(n, ex) == Round(Sgn(n), Abs(n), ex)
FromInt(n) == Fl(n, 0)
Zero == FromInt(0)
One == FromInt(1)

IsZero(a) == a.m = 0
IsPos(a) == a.m > 0
IsNeg(a) == a.m < 0
Neg(a) == [m |-> 0 - a.m, e |-> a.e]

\* The significand of a # 0 shifted left to p bits, with its exponent.
Normal(p, a) ==
    LET t == p - BitLen(Abs(a.m))
    IN  [m |-> Abs(a.m) * (2 ^ t), e |-> a.e - t]

\* a * b of precision p.  The product of the two p-bit significands is
\* formed from their halves (it exceeds the range of the integers used):
\* its bits above 2^(2k) exactly, those below as a sticky bit.
MulTo(p, emin, a, b) ==
    IF a.m = 0 \/ b.m = 0 THEN [m |-> 0, e |-> emin]
    ELSE LET na == Normal(p, a)
             nb == Normal(p, b)
             k == (p - 2) \div 2
             B == 2 ^ k
             ah == na.m \div B
             al == na.m % B
             bh == nb.m \div B
             bl == nb.m % B
             mid == ah * bl + al * bh
             low == (mid % B) * B + al * bl
             high == ah * bh + mid \div B + low \div (B * B)
             sticky == IF low % (B * B) = 0 THEN 0 ELSE 1
         IN  RoundTo(p, emin, Sgn(a.m) * Sgn(b.m), 2 * high + sticky,
                     na.e + nb.e + 2 * k - 1)

Mul(a, b) == MulTo(Prec, EMin, a, b)

\* a + b: the exact sum rounded once.  An addend more than two binary
\* places below the other is first cut to three guard bits below the
\* other's last place, the bits cut off kept as a sticky bit.
Add(a, b) ==
    IF a.m = 0 THEN b
    ELSE IF b.m = 0 THEN a
    ELSE LET hi == IF a.e >= b.e THEN a ELSE b
             lo == IF a.e >= b.e THEN b ELSE a
             d == hi.e - lo.e
         IN  IF d <= 2
             THEN LET s == hi.m * (2 ^ d) + lo.m
                  IN  Round(Sgn(s), Abs(s), lo.e)
             ELSE LET x == Abs(lo.m) * 8
                      q == IF d > Prec + 3 THEN 0 ELSE x \div (2 ^ d)
                      cut == IF d > Prec + 3 THEN TRUE ELSE x % (2 ^ d) # 0
                      jam == IF cut /\ q % 2 = 0 THEN q + 1 ELSE q
                      s == hi.m * 8 + Sgn(lo.m) * jam
                  IN  Round(Sgn(s), Abs(s), hi.e - 3)

Sub(a, b) == Add(a, Neg(b))

\* The quotient bits of rem / d: <<floor(rem * 2^i / d), nonzero remainder>>.
RECURSIVE DivBits(_, _, _, _)
DivBits(rem, d, i, q) ==
    IF i = 0 THEN <<q, IF rem = 0 THEN 0 ELSE 1>>
    ELSE IF 2 * rem >= d THEN DivBits(2 * rem - d, d, i - 1, 2 * q + 1)
    ELSE DivBits(2 * rem, d, i - 1, 2 * q)

\* a / b for b # 0: the quotient of the normalised significands to
\* Prec + 2 bits and a sticky bit, rounded once.
Div(a, b) ==
    IF a.m = 0 THEN Zero
    ELSE LET na == Normal(Prec, a)
             nb == Normal(Prec, b)
             qs == DivBits(na.m % nb.m, nb.m, Prec + 2, na.m \div nb.m)
         IN  Round(Sgn(a.m) * Sgn(b.m), 2 * qs[1] + qs[2],
                   na.e - nb.e - (Prec + 2) - 1)

\* x ** n for an int n >= 0, as the C library's pow computes it: in an
\* extended precision of ExtPrec bits, then rounded to a float.
MulExt(a, b) == MulTo(ExtPrec, NoEMin, a, b)

RECURSIVE PowExt(_, _)
PowExt(x, n) ==
    IF n = 0 THEN One
    ELSE IF n = 1 THEN x
    ELSE LET h == PowExt(x, n \div 2)
             sq == MulExt(h, h)
         IN  IF n % 2 = 1 THEN MulExt(sq, x) ELSE sq

Pow(x, n) ==
    LET r == PowExt(x, n)
    IN  Round(Sgn(r.m), Abs(r.m), r.e)

\* max(0, x)
Max0(x) == IF IsPos(x) THEN x ELSE Zero

\* a <= b
Le(a, b) == ~IsPos(Sub(a, b))
AbsF(a) == [m |-> Abs(a.m), e |-> a.e]

\* A name that is not bound yet.
NoValue == [m |-> 0, e |-> EMin - 1]
NoDate == [y |-> 0, mo |-> 0, d |-> 0]

\* ------------------------------------------------------------- calendar
IsLeap(y) == (y % 4 = 0 /\ y % 100 # 0) \/ y % 400 = 0

\* calendar.monthrange(year, month)[1]
DaysInMonth(y, mo) ==
    IF mo = 2 THEN (IF IsLeap(y) THEN 29 ELSE 28)
    ELSE IF mo \in {4, 6, 9, 11} THEN 30
    ELSE 31

\* Month addition that keeps the day of the month as it is.
AddMonthsNoClamp(dt, k) ==
    LET total == dt.mo - 1 + k
    IN  [y |-> dt.y + (total \div 12), mo |-> (total % 12) + 1, d |-> dt.d]

\* dt + relativedelta(months=k), k >= 0: the months are split into years
\* and months below 12, a month past December carries into the year, and
\* the day is cut to the length of the month reached.
AddMonths(dt, k) ==
    LET years == k \div 12
        months == k % 12
        y0 == dt.y + years
        mo0 == dt.mo + months
        y1 == IF mo0 > 12 THEN y0 + 1 ELSE y0
        mo1 == IF mo0 > 12 THEN mo0 - 12 ELSE mo0
    IN  [y |-> y1, mo |-> mo1, d |-> Min(DaysInMonth(y1, mo1), dt.d)]

\* payment_date.strftime("%b %Y"): the month and the year, not the day.
StrftimeMonthYear(dt) == [mo |-> dt.mo, y |-> dt.y]

\* A guard that lets a zero rate through.
GuardZeroRate(loan, rate) == IsPos(loan) /\ ~IsNeg(rate)

\* ------------------------------------------------------ the computation
\* loan_amount > 0 and interest_rate > 0
Guard(loan, rate) == IsPos(loan) /\ IsPos(rate)

\* interest_rate / 100 / 12
MonthlyRate(rate) == Div(Div(rate, FromInt(100)), FromInt(12))

\* loan_amount * ((1 + monthly_rate) ** deferral_months)
CompoundedPrincipal(loan, r, months) == Mul(loan, Pow(Add(One, r), months))

\* (1 + monthly_rate) ** total_payments - 1
AnnuityDenominator(r, n) == Sub(Pow(Add(One, r), n), One)

\* adjusted_principal * (monthly_rate * (1 + monthly_rate) ** total_payments)
\*     / ((1 + monthly_rate) ** total_payments - 1)
AnnuityPayment(principal, r, n) ==
    Div(Mul(principal, Mul(r, Pow(Add(One, r), n))), AnnuityDenominator(r, n))

\* adjusted_principal / total_payments
StraightLinePayment(principal, n) == Div(principal, FromInt(n))

\* A deferral month that leaves the balance as it was.
AccrueNothing(bal, r) == bal

\* balance += balance * monthly_rate
AccrueInterest(bal, r) == Add(bal, Mul(bal, r))

GraceRow(counter, dt, bal) ==
    [Luna |-> counter, Data |-> StrftimeMonthYear(dt),
     PlataPrincipal |-> Zero, Dobanda |-> Zero, PlataTotala |-> Zero,
     SoldRamas |-> bal, Status |-> "Gratie"]

\* A deferral row that shows the accrued interest as a payment made.
DeferralRowPaid(counter, dt, accrued, bal) ==
    [Luna |-> counter, Data |-> StrftimeMonthYear(dt),
     PlataPrincipal |-> Zero, Dobanda |-> accrued, PlataTotala |-> accrued,
     SoldRamas |-> bal, Status |-> "Amanare"]

\* A deferral row labelled as a grace row.
DeferralRowAsGrace(counter, dt, accrued, bal) ==
    [Luna |-> counter, Data |-> StrftimeMonthYear(dt),
     PlataPrincipal |-> Zero, Dobanda |-> accrued, PlataTotala |-> Zero,
     SoldRamas |-> bal, Status |-> "Gratie"]

DeferralRow(counter, dt, accrued, bal) ==
    [Luna |-> counter, Data |-> StrftimeMonthYear(dt),
     PlataPrincipal |-> Zero, Dobanda |-> accrued, PlataTotala |-> Zero,
     SoldRamas |-> bal, Status |-> "Amanare"]

PaymentRow(counter, dt, principal, interest, payment, bal) ==
    [Luna |-> counter, Data |-> StrftimeMonthYear(dt),
     PlataPrincipal |-> principal, Dobanda |-> interest,
     PlataTotala |-> payment, SoldRamas |-> Max0(bal), Status |-> "Plata"]

\* Repayment dates counted from one month after the first payment date.
RepaymentDateOffByOne(first, month) == AddMonths(first, month)

\* first_payment_date + relativedelta(months=payment_month-1)
RepaymentDate(first, month) == AddMonths(first, month - 1)

\* total_payments <= 360 or payment_month % max(1, total_payments // 360) == 0
\*     or payment_month == total_payments
Sampled(n, month) ==
    n <= 360 \/ month % Max(1, n \div 360) = 0 \/ month = n

\* --------------------------------------------------------------- inputs
\* Values the widgets can return: amounts and rates are floats >= 0, the
\* rate at most 20; the term is 1..50 years; the months are 0..120.
MinSubnormal == [m |-> 1, e |-> EMin]
\* a rate whose monthly rate is below half a unit in the last place of 1.0
TinyRate == Fl(1, 6 - Prec)
\* a rate whose monthly rate is 1.5 units of roundoff of 1.0
SmallRate == Fl(225, 3 - Prec)

LoanAmounts == {Zero, FromInt(100000), FromInt(25001)}
InterestRates ==
    {Zero, MinSubnormal, TinyRate, SmallRate, Fl(9, 0 - 1), FromInt(12),
     Fl(75, 0 - 2), FromInt(20)}
StartDates ==
    {[y |-> 2024, mo |-> 1, d |-> 31], [y |-> 2099, mo |-> 12, d |-> 31],
     [y |-> 2023, mo |-> 11, d |-> 15]}

VARIABLES
    loan_amount, interest_rate, loan_term_years, start_date,
    grace_months, deferral_months,
    pc, monthly_rate, total_payments, adjusted_principal, deferred_interest,
    formula, monthly_payment, total_amount_paid, total_interest,
    first_payment_date, payoff_date, month_counter, balance,
    cumulative_interest, cumulative_principal, loop_month,
    detailed_schedule_data, schedule_data, shown

inputs == <<loan_amount, interest_rate, loan_term_years, start_date,
            grace_months, deferral_months>>
rates == <<monthly_rate, total_payments>>
accrual == <<adjusted_principal, deferred_interest>>
payment == <<formula, monthly_payment>>
summary == <<total_amount_paid, total_interest, first_payment_date, payoff_date>>
cumulative == <<cumulative_interest, cumulative_principal>>
schedules == <<detailed_schedule_data, schedule_data>>
vars == <<inputs, pc, rates, accrual, payment, summary, month_counter, balance,
          cumulative, loop_month, schedules, shown>>

Init ==
    /\ loan_amount \in LoanAmounts
    /\ interest_rate \in InterestRates
    /\ loan_term_years \in 1..MaxYears
    /\ start_date \in StartDates
    /\ grace_months \in 0..MaxGrace
    /\ deferral_months \in 0..MaxDeferral
    /\ pc = "guard"
    /\ monthly_rate = NoValue
    /\ total_payments = 0
    /\ adjusted_principal = NoValue
    /\ deferred_interest = NoValue
    /\ formula = "none"
    /\ monthly_payment = NoValue
    /\ total_amount_paid = NoValue
    /\ total_interest = NoValue
    /\ first_payment_date = NoDate
    /\ payoff_date = NoDate
    /\ month_counter = 0
    /\ balance = NoValue
    /\ cumulative_interest = NoValue
    /\ cumulative_principal = NoValue
    /\ loop_month = 0
    /\ detailed_schedule_data = <<>>
    /\ schedule_data = <<>>
    /\ shown = {}

\* lines 131-136: the guard holds
EnterComputation ==
    /\ pc = "guard"
    /\ Guard(loan_amount, interest_rate)
    /\ monthly_rate' = MonthlyRate(interest_rate)
    /\ total_payments' = loan_term_years * 12
    /\ pc' = "accrual"
    /\ UNCHANGED <<inputs, accrual, payment, summary, month_counter, balance,
                   cumulative, loop_month, schedules, shown>>

\* lines 131, 247: the guard fails, nothing is computed and no chart is shown
SkipComputation ==
    /\ pc = "guard"
    /\ ~Guard(loan_amount, interest_rate)
    /\ pc' = "output"
    /\ UNCHANGED <<inputs, rates, accrual, payment, summary, month_counter,
                   balance, cumulative, loop_month, schedules, shown>>

\* lines 141-147
DeferralAccrual ==
    /\ pc = "accrual"
    /\ IF deferral_months > 0
       THEN /\ adjusted_principal' =
                   CompoundedPrincipal(loan_amount, monthly_rate, deferral_months)
            /\ deferred_interest' = Sub(adjusted_principal', loan_amount)
       ELSE /\ deferred_interest' = Zero
            /\ adjusted_principal' = loan_amount
    /\ pc' = "payment"
    /\ UNCHANGED <<inputs, rates, payment, summary, month_counter, balance,
                   cumulative, loop_month, schedules, shown>>

\* lines 151-154: the annuity formula
AnnuityFormula ==
    /\ pc = "payment"
    /\ IsPos(monthly_rate)
    /\ ~IsZero(AnnuityDenominator(monthly_rate, total_payments))
    /\ monthly_payment' =
           AnnuityPayment(adjusted_principal, monthly_rate, total_payments)
    /\ formula' = "annuity"
    /\ pc' = "summary"
    /\ UNCHANGED <<inputs, rates, accrual, summary, month_counter, balance,
                   cumulative, loop_month, schedules, shown>>

\* lines 151-154: the divisor is 0.0, the division raises ZeroDivisionError
\* and the run of the script ends there
AnnuityZeroDivision ==
    /\ pc = "payment"
    /\ IsPos(monthly_rate)
    /\ IsZero(AnnuityDenominator(monthly_rate, total_payments))
    /\ formula' = "annuity"
    /\ pc' = "crashed"
    /\ UNCHANGED <<inputs, rates, accrual, monthly_payment, summary,
                   month_counter, balance, cumulative, loop_month, schedules,
                   shown>>

\* lines 155-156: the straight-line branch
StraightLineFormula ==
    /\ pc = "payment"
    /\ ~IsPos(monthly_rate)
    /\ monthly_payment' = StraightLinePayment(adjusted_principal, total_payments)
    /\ formula' = "straight"
    /\ pc' = "summary"
    /\ UNCHANGED <<inputs, rates, accrual, summary, month_counter, balance,
                   cumulative, loop_month, schedules, shown>>

\* lines 159-177
SummaryAndDates ==
    /\ pc = "summary"
    /\ total_amount_paid' = Mul(monthly_payment, FromInt(total_payments))
    /\ total_interest' = Sub(total_amount_paid', loan_amount)
    /\ first_payment_date' = AddMonths(start_date, grace_months + deferral_months)
    /\ payoff_date' = AddMonths(first_payment_date', total_payments)
    /\ month_counter' = 1
    /\ balance' = loan_amount
    /\ loop_month' = 0
    /\ pc' = "grace"
    /\ UNCHANGED <<inputs, rates, accrual, payment, cumulative, schedules, shown>>

\* lines 178-189: one pass of the grace loop
GraceMonth ==
    /\ pc = "grace"
    /\ loop_month < grace_months
    /\ detailed_schedule_data' = Append(detailed_schedule_data,
           GraceRow(month_counter, AddMonths(start_date, loop_month), balance))
    /\ month_counter' = month_counter + 1
    /\ loop_month' = loop_month + 1
    /\ UNCHANGED <<inputs, pc, rates, accrual, payment, summary, balance,
                   cumulative, schedule_data, shown>>

\* line 192: the grace loop is over, the deferral loop starts
GraceDone ==
    /\ pc = "grace"
    /\ loop_month = grace_months
    /\ loop_month' = 0
    /\ pc' = "deferral"
    /\ UNCHANGED <<inputs, rates, accrual, payment, summary, month_counter,
                   balance, cumulative, schedules, shown>>

\* lines 192-205: one pass of the deferral loop
DeferralMonth ==
    /\ pc = "deferral"
    /\ loop_month < deferral_months
    /\ balance' = AccrueInterest(balance, monthly_rate)
    /\ detailed_schedule_data' = Append(detailed_schedule_data,
           DeferralRow(month_counter,
                       AddMonths(start_date, grace_months + loop_month),
                       Mul(balance, monthly_rate), balance'))
    /\ month_counter' = month_counter + 1
    /\ loop_month' = loop_month + 1
    /\ UNCHANGED <<inputs, pc, rates, accrual, payment, summary, cumulative,
                   schedule_data, shown>>

\* lines 208-212: the deferral loop is over, the repayment loop starts
StartRepayment ==
    /\ pc = "deferral"
    /\ loop_month = deferral_months
    /\ balance' = adjusted_principal
    /\ cumulative_interest' = Zero
    /\ cumulative_principal' = Zero
    /\ loop_month' = 1
    /\ pc' = "repayment"
    /\ UNCHANGED <<inputs, rates, accrual, payment, summary, month_counter,
                   schedules, shown>>

\* lines 212-241: one pass of the repayment loop
RepaymentMonth ==
    /\ pc = "repayment"
    /\ loop_month <= total_payments
    /\ LET interest_payment == Mul(balance, monthly_rate)
           principal_payment == Sub(monthly_payment, interest_payment)
           payment_date == RepaymentDate(first_payment_date, loop_month)
       IN  /\ balance' = Sub(balance, principal_payment)
           /\ cumulative_interest' = Add(cumulative_interest, interest_payment)
           /\ cumulative_principal' = Add(cumulative_principal, principal_payment)
           /\ detailed_schedule_data' = Append(detailed_schedule_data,
                  PaymentRow(month_counter, payment_date, principal_payment,
                             interest_payment, monthly_payment, balance'))
           /\ schedule_data' =
                  IF Sampled(total_payments, loop_month)
                  THEN Append(schedule_data,
                           [Month |-> loop_month, Date |-> payment_date,
                            Balance |-> Max0(balance'),
                            Principal |-> cumulative_principal',
                            Interest |-> cumulative_interest'])
                  ELSE schedule_data
    /\ month_counter' = month_counter + 1
    /\ loop_month' = loop_month + 1
    /\ UNCHANGED <<inputs, pc, rates, accrual, payment, summary, shown>>

\* lines 243-291: the repayment loop is over; the chart and the table
ShowChartAndTable ==
    /\ pc = "repayment"
    /\ loop_month > total_payments
    /\ shown' = shown \cup {"chart", "table"}
    /\ pc' = "output"
    /\ UNCHANGED <<inputs, rates, accrual, payment, summary, month_counter,
                   balance, cumulative, loop_month, schedules>>

\* lines 297-355: the metrics and the summary table
ShowMetrics ==
    /\ pc = "output"
    /\ Guard(loan_amount, interest_rate)
    /\ shown' = shown \cup {"monthly_payment", "first_payment_date",
                            "payoff_date", "total_interest",
                            "total_amount_paid", "summary"}
    /\ pc' = "done"
    /\ UNCHANGED <<inputs, rates, accrual, payment, summary, month_counter,
                   balance, cumulative, loop_month, schedules>>

\* lines 357-358: the warning
ShowWarning ==
    /\ pc = "output"
    /\ ~Guard(loan_amount, interest_rate)
    /\ shown' = shown \cup {"warning"}
    /\ pc' = "done"
    /\ UNCHANGED <<inputs, rates, accrual, payment, summary, month_counter,
                   balance, cumulative, loop_month, schedules>>

Next ==
    \/ EnterComputation
    \/ SkipComputation
    \/ DeferralAccrual
    \/ AnnuityFormula
    \/ AnnuityZeroDivision
    \/ StraightLineFormula
    \/ SummaryAndDates
    \/ GraceMonth
    \/ GraceDone
    \/ DeferralMonth
    \/ StartRepayment
    \/ RepaymentMonth
    \/ ShowChartAndTable
    \/ ShowMetrics
    \/ ShowWarning

Spec == Init /\ [][Next]_vars

\* ================================================================ claims
Rows == detailed_schedule_data
GuardHolds == Guard(loan_amount, interest_rate)
\* the run of the script has ended
Ended == pc \in {"done", "crashed"}
\* the schedule is complete
ScheduleDone == GuardHolds /\ pc \in {"output", "done"}
TermMonths == loan_term_years * 12
Timeline == grace_months + deferral_months + TermMonths
SummaryShown == {"monthly_payment", "first_payment_date", "payoff_date",
                 "total_interest", "total_amount_paid", "summary"}

\* |a - b| <= scale * 2^-(Prec \div 2): a and b agree up to rounding, to
\* half of the digits a float of that scale carries.
UpToRounding(a, b, scale) ==
    Le(AbsF(Sub(a, b)), Mul(AbsF(scale), Fl(1, 0 - (Prec \div 2))))

\* The distance of two floats in units in the last place of the finer one.
UlpsApart(a, b) ==
    LET ex == Min(a.e, b.e)
    IN  IF Abs(a.e - b.e) > 1 THEN 2 ^ Prec
        ELSE Abs(a.m * (2 ^ (a.e - ex)) - b.m * (2 ^ (b.e - ex)))

\* The float sum of the interest column over rows 1..i, in row order.
RECURSIVE SumInterest(_, _)
SumInterest(rows, i) ==
    IF i = 0 THEN Zero ELSE Add(SumInterest(rows, i - 1), rows[i].Dobanda)

\* The float sum of the principal column over rows 1..i, in row order.
RECURSIVE SumPrincipal(_, _)
SumPrincipal(rows, i) ==
    IF i = 0 THEN Zero ELSE Add(SumPrincipal(rows, i - 1), rows[i].PlataPrincipal)

\* The balance the row i starts from.
BalanceBefore(i) == IF i = 1 THEN loan_amount ELSE Rows[i - 1].SoldRamas

\* The balance at which the deferral simulation ends.
DeferralEndBalance ==
    IF deferral_months > 0
    THEN Rows[grace_months + deferral_months].SoldRamas
    ELSE loan_amount

\* C1: when loan_amount <= 0 or interest_rate <= 0 no schedule row and no
\* summary figure is produced and only the warning is shown; when both are
\* positive the run ends with a schedule and the summary shown, and the
\* warning is not shown.
C1_GuardDecidesOutput ==
    /\ ~GuardHolds =>
          /\ Rows = <<>> /\ schedule_data = <<>>
          /\ monthly_payment = NoValue /\ total_amount_paid = NoValue
          /\ total_interest = NoValue
          /\ first_payment_date = NoDate /\ payoff_date = NoDate
          /\ shown \subseteq {"warning"}
          /\ (pc = "done" => shown = {"warning"})
    /\ (GuardHolds /\ Ended) =>
          /\ Len(Rows) > 0
          /\ monthly_payment # NoValue
          /\ SummaryShown \subseteq shown
          /\ "warning" \notin shown

\* C2: the remaining balance of every schedule row is non-negative, and
\* that of the last repayment row is exactly zero.
C2_BalanceEndsAtZero ==
    /\ \A i \in 1..Len(Rows) : ~IsNeg(Rows[i].SoldRamas)
    /\ ScheduleDone => Rows[Len(Rows)].SoldRamas = Zero

\* C3 (as claimed): the balance at which the deferral simulation ends
\* equals adjusted_principal, the balance the first repayment month starts
\* from.
C3_DeferralEqualsClosedForm ==
    (GuardHolds /\ pc = "repayment" /\ loop_month = 1) =>
        /\ balance = adjusted_principal
        /\ DeferralEndBalance = balance

\* C3 (amended): the balance at which the deferral simulation ends and
\* adjusted_principal agree up to floating-point rounding: they are at most
\* 2 * deferral_months + 3 units in the last place apart, and identical
\* when there is no deferral.
C3_DeferralNearClosedForm ==
    (GuardHolds /\ pc = "repayment" /\ loop_month = 1) =>
        /\ balance = adjusted_principal
        /\ UlpsApart(DeferralEndBalance, balance) <= 2 * deferral_months + 3
        /\ deferral_months = 0 => DeferralEndBalance = balance

C3_Witness ==
    /\ GuardHolds /\ pc = "repayment" /\ loop_month = 1
    /\ deferral_months = MaxDeferral
    /\ DeferralEndBalance # loan_amount
    /\ UlpsApart(DeferralEndBalance, balance) <= 2 * deferral_months + 3

\* C4: the principal column of the repayment rows sums to adjusted_principal
\* up to rounding.
C4_PrincipalSumsToAdjusted ==
    ScheduleDone =>
        /\ SumPrincipal(Rows, Len(Rows)) = cumulative_principal
        /\ UpToRounding(cumulative_principal, adjusted_principal,
                        adjusted_principal)

\* C5 (as claimed): in every grace and deferral row the principal, the
\* interest and the total payment are all zero.
C5_NothingRecordedBeforeRepayment ==
    \A i \in 1..Len(Rows) :
        Rows[i].Status \in {"Gratie", "Amanare"} =>
            /\ Rows[i].PlataPrincipal = Zero
            /\ Rows[i].Dobanda = Zero
            /\ Rows[i].PlataTotala = Zero

\* C5 (amended): in every grace row the principal, the interest and the
\* total payment are zero; in every deferral row the principal and the
\* total payment are zero, and the interest column holds the interest
\* accrued that month, the balance before it times the monthly rate, which
\* the row's balance includes.
C5_OnlyAccrualRecordedBeforeRepayment ==
    \A i \in 1..Len(Rows) :
        /\ Rows[i].Status = "Gratie" =>
              /\ Rows[i].PlataPrincipal = Zero
              /\ Rows[i].Dobanda = Zero
              /\ Rows[i].PlataTotala = Zero
        /\ Rows[i].Status = "Amanare" =>
              /\ Rows[i].PlataPrincipal = Zero
              /\ Rows[i].PlataTotala = Zero
              /\ Rows[i].Dobanda = Mul(BalanceBefore(i), monthly_rate)
              /\ Rows[i].SoldRamas = Add(BalanceBefore(i), Rows[i].Dobanda)

C5_Witness ==
    /\ pc = "done"
    /\ \E i \in 1..Len(Rows) : Rows[i].Status = "Gratie"
    /\ \E i \in 1..Len(Rows) :
          Rows[i].Status = "Amanare" /\ IsPos(Rows[i].Dobanda)

IsMonthsAfter(b, a, k) ==
    /\ b.mo \in 1..12
    /\ b.y * 12 + b.mo = a.y * 12 + a.mo + k
    /\ b.d = IF a.d > DaysInMonth(b.y, b.mo) THEN DaysInMonth(b.y, b.mo) ELSE a.d

\* C7: first_payment_date is start_date plus grace + deferral calendar
\* months and payoff_date is first_payment_date plus the term in months,
\* the day of the month clamped to the length of the month reached.
C7_SummaryDates ==
    first_payment_date # NoDate =>
        /\ IsMonthsAfter(first_payment_date, start_date,
                         grace_months + deferral_months)
        /\ IsMonthsAfter(payoff_date, first_payment_date, TermMonths)

\* 31 January 2024 plus one month is 29 February 2024.
C7_Witness ==
    /\ start_date = [y |-> 2024, mo |-> 1, d |-> 31]
    /\ grace_months + deferral_months = 1
    /\ first_payment_date = [y |-> 2024, mo |-> 2, d |-> 29]
    /\ payoff_date.d = 28

\* C8: the date of every row is the calendar month start_date plus
\* (row number - 1) months, in every phase.
C8_RowDates ==
    \A i \in 1..Len(Rows) :
        /\ Rows[i].Data.mo \in 1..12
        /\ Rows[i].Data.y * 12 + Rows[i].Data.mo
               = start_date.y * 12 + start_date.mo + (i - 1)

\* All three phases present, and the repayment dates counted from a first
\* payment date whose day was clamped.
C8_Witness ==
    /\ pc = "done" /\ GuardHolds
    /\ grace_months > 0 /\ deferral_months > 0
    /\ first_payment_date.d # start_date.d
    /\ Rows[Len(Rows)].Status = "Plata"

\* C9 (as claimed): the straight-line branch is never taken; every run that
\* enters the computation has monthly_rate > 0.
C9_StraightLineUnreachable ==
    /\ formula # "straight"
    /\ monthly_rate # NoValue => IsPos(monthly_rate)

\* C9 (amended): the straight-line branch is taken only by a run that
\* passed the guard with a positive rate so small (subnormal) that
\* interest_rate / 100 / 12 underflowed to 0.0; whenever monthly_rate > 0
\* the annuity formula is the one used.
C9_StraightLineOnlyOnUnderflow ==
    /\ formula = "straight" =>
          /\ IsPos(loan_amount) /\ IsPos(interest_rate)
          /\ interest_rate.e = EMin /\ interest_rate.m < 2 ^ (Prec - 1)
          /\ monthly_rate = Zero
    /\ (formula # "none" /\ IsPos(monthly_rate)) => formula = "annuity"
    /\ monthly_rate # NoValue => ~IsNeg(monthly_rate)

C9_Witness ==
    /\ pc = "done" /\ formula = "straight"
    /\ IsPos(interest_rate)
    /\ Len(Rows) = Timeline

\* C10: total_interest equals the sum of the interest column over the whole
\* schedule, and the interest of the deferral rows sums to
\* deferred_interest, up to rounding.
C10_InterestAgrees ==
    ScheduleDone =>
        /\ UpToRounding(total_interest, SumInterest(Rows, Len(Rows)),
                        adjusted_principal)
        /\ UpToRounding(deferred_interest,
                        SumInterest(Rows, grace_months + deferral_months),
                        adjusted_principal)

====
